---- MODULE Spec2Model ----
(***************************************************************************)
(* Model of the vinyl audio tools:                                         *)
(*   - AudioClickPopRemover.detect_clicks / interpolate_clicks, and the    *)
(*     batch around them, process_files / process_file, mono and stereo    *)
(*     (src/audio_click_pop_remover.py)                                    *)
(*   - AudioSilenceTrimmer.detect_silence and process_file                 *)
(*     (src/audio_silence_trimmer_RMS.py)                                  *)
(*   - AudioFormatConverter.convert_file                                   *)
(*     (src/audio_format_converter.py)                                     *)
(*   - the window shared by the three tools: start_processing and the      *)
(*     worker thread running process_files                                 *)
(*                                                                         *)
(* Samples are integers (a fixed-point view of the float samples).  Sample *)
(* indices are 0-based as in the Python source; a region is the tuple      *)
(* <<start, end>> of the half-open interval [start, end).  TLA+ sequences  *)
(* are 1-based, so sample i of a buffer a is a[i + 1].                     *)
(*                                                                         *)
(* Real-valued quantities are kept exact by scaling:                       *)
(*   - np.median of an even-length array is the mean of the two middle     *)
(*     values, so medians are carried doubled (Median2 = 2 * median);      *)
(*   - the threshold multiplier is carried in tenths (40 is 4.0) and the   *)
(*     factor 1.4826 as 14826 / 10000;                                     *)
(*   - a time i / sample_rate is carried as its numerator i, in samples.   *)
(***************************************************************************)
EXTENDS Integers, Sequences, FiniteSets, TLC

VARIABLES
    audio,              \* the decoded buffer handed to the engine
    sample_rate,        \* its sample rate (Hz)
    window_size,        \* detect_clicks: median kernel width
    threshold,          \* detect_clicks: threshold multiplier, in tenths
    max_length,         \* detect_clicks: max_click_length
    clicks,             \* the region list (detected, or supplied by the caller)
    corrected,          \* interpolate_clicks: the buffer being corrected
    ri,                 \* interpolate_clicks: number of regions already handled
    pc,                 \* position of the running call
    track_start_coarse, \* detect_silence locals, in samples
    track_start,
    track_end_coarse,
    track_end,
    total_length,
    files,              \* process_files: the list of files found
    fidx,               \* process_files: number of files handed to process_file
    form,               \* the entries of the form (tk variables)
    log,                \* the lines written by self.log, as records
    disk,               \* per file: the original, the output file, the temp file
    processing,         \* self.processing
    process_button,     \* state of self.process_button
    threads,            \* the worker threads started so far, by position
    request,            \* the form and the environment a worker runs against
    messagebox,         \* the dialog shown last
    encoder,            \* the runs of ffmpeg so far, with their arguments
    output_dir          \* the converter's output folder: name -> content

vars == <<audio, sample_rate, window_size, threshold, max_length, clicks,
          corrected, ri, pc, track_start_coarse, track_start,
          track_end_coarse, track_end, total_length,
          files, fidx, form, log, disk,
          processing, process_button, threads, request, messagebox,
          encoder, output_dir>>

clickVars == <<window_size, threshold, max_length, clicks, corrected, ri>>
trimVars == <<track_start_coarse, track_start, track_end_coarse, track_end,
              total_length>>
fileVars == <<files, fidx, form, log, disk>>
guiVars == <<processing, process_button, threads, request, messagebox>>
\* the state of the tools' windows and of the runs started from them
encVars == <<encoder, output_dir>>
toolVars == <<guiVars, encVars>>
\* everything but the window and its threads
nonGuiVars == <<audio, sample_rate, pc, clickVars, trimVars, fileVars, encVars>>

----------------------------------------------------------------------------
(* Bounds of the model *)

\* longest buffer of the exhaustively enumerated signals
MaxLen == 9
\* longest buffer of the synthetic "constant baseline plus one spike" signals
MaxSpikeBuf == 17
\* longest buffer and longest region list handed directly to interpolate_clicks
MaxCorrectLen == 6
MaxRegions == 2
\* longest buffer handed to interpolate_clicks with a single region
MaxSupportLen == 13

\* longest buffer of the exhaustively enumerated on/off signals of the trimmer
MaxTrimLen == 10
\* longest buffer of the silent signals carrying at most three unit pulses
MaxSparseLen == 17
\* longest lead-in silence and longest tone of the "silence then tone" signals
MaxSilence == 24
MaxTone == 24

\* longest buffer of the enumerated three-level signals
MaxRippleLen == 6

\* sample values of the enumerated signals
Values == {0, 1}
RippleValues == {0, 1, 8}
\* baselines and spike gains of the synthetic signals
Baselines == {-1, 2}
Gains == {10, 12}
\* parameter values tried (window sizes odd, as process_file makes them)
WindowSizes == {3, 5}
SpikeWindowSizes == {3, 9}
Thresholds == {5, 40}
SpikeThresholds == {30, 40}
MaxLengths == {1, 2}
SpikeMaxLengths == {2, 8}
\* sample rates of the trimmer's inputs (at 5 Hz a 0.1 s frame has no samples)
SampleRates == {5, 10, 20}
ToneAmplitudes == {1, -3}

\* longest list of files of a batch
MaxFiles == 2
\* the decoded content of the files: one with a click, one clean
FileSignals == {<<0, 0, 0, 0, 1, 0, 0, 0, 0>>, <<1, 1, 1>>}
\* the window sizes typed into the form
FormWindows == {-2, 2, 3, 4, 8, 24, 25, 26, 27}

----------------------------------------------------------------------------
(* Arithmetic helpers standing for numpy primitives *)

Abs(x) == IF x < 0 THEN -x ELSE x
Min(a, b) == IF a < b THEN a ELSE b
Max(a, b) == IF a > b THEN a ELSE b

\* k-th smallest element (k = 1 is the minimum) of a non-empty sequence
KthSmallest(s, k) ==
    CHOOSE v \in {s[j] : j \in DOMAIN s} :
        /\ Cardinality({j \in DOMAIN s : s[j] < v}) < k
        /\ Cardinality({j \in DOMAIN s : s[j] <= v}) >= k

\* 2 * np.median(s): the middle value, or the mean of the two middle values
Median2(s) ==
    LET n == Len(s) IN
    IF n % 2 = 1 THEN 2 * KthSmallest(s, (n + 1) \div 2)
    ELSE KthSmallest(s, n \div 2) + KthSmallest(s, n \div 2 + 1)

----------------------------------------------------------------------------
(* detect_clicks *)

\* scipy.signal.medfilt(audio, kernel_size): the input is zero-padded, so a
\* window reaching past either end of the buffer sees zeros there.
medfilt(a, kernel_size) ==
    LET half == (kernel_size - 1) \div 2
        win(i) == [j \in 1..kernel_size |->
                      LET p == i - half + j - 1 IN
                      IF p \in 0..(Len(a) - 1) THEN a[p + 1] ELSE 0]
    IN [i1 \in 1..Len(a) |-> KthSmallest(win(i1 - 1), half + 1)]

\* difference = np.abs(audio - filtered)
Difference(a, kernel_size) ==
    LET filtered == medfilt(a, kernel_size)
    IN [i1 \in 1..Len(a) |-> Abs(a[i1] - filtered[i1])]

\* 1.4826, times 10^4
MadScale == 14826

\* (mutant of ExceedsThreshold: ">=" written for ">")
ExceedsThresholdOrEqual(d, m2, a2, thr) ==
    400000 * d >= 200000 * m2 + thr * a2 * 14826

\* difference[i] > threshold_value, where
\*   threshold_value = median_diff + threshold * mad * 1.4826.
\* With m2 = 2 * median_diff and a2 = 2 * median(|2*difference - m2|) = 4 * mad
\* and thr in tenths, both sides are multiplied by 400000.
ExceedsThreshold(d, m2, a2, thr) ==
    400000 * d > 200000 * m2 + thr * a2 * MadScale

\* (mutant of Outliers: the MAD term is left out, threshold_value = median_diff)
OutliersNoMadTerm(a, kernel_size, thr) ==
    LET difference == Difference(a, kernel_size)
        m2 == Median2(difference)
    IN [i1 \in 1..Len(a) |-> 2 * difference[i1] > m2]

\* outliers = difference > threshold_value   (a boolean mask)
Outliers(a, kernel_size, thr) ==
    LET difference == Difference(a, kernel_size)
        m2 == Median2(difference)
        dev == [i1 \in 1..Len(a) |-> Abs(2 * difference[i1] - m2)]
        a2 == Median2(dev)
    IN [i1 \in 1..Len(a) |-> ExceedsThreshold(difference[i1], m2, a2, thr)]

\* (mutant of RunAccepted: off by one)
RunAcceptedOffByOne(click_length, max_len) == click_length <= max_len + 1

\* the length test applied when a run is closed
RunAccepted(click_length, max_len) == click_length <= max_len

\* the test that abandons a run while it is still open
RunAbandoned(i, click_start, max_len) == (i - click_start) > max_len

\* (mutant of ScanStep: a closed run is recorded with an inclusive end, i + 1)
ScanStepInclusiveEnd(st, outliers, max_len, i) ==
    IF outliers[i + 1] /\ ~st.in_click
    THEN [st EXCEPT !.in_click = TRUE, !.click_start = i]
    ELSE IF ~outliers[i + 1] /\ st.in_click
    THEN [st EXCEPT
            !.clicks = IF (i - st.click_start) <= max_len
                       THEN Append(st.clicks, <<st.click_start, i + 1>>)
                       ELSE st.clicks,
            !.in_click = FALSE]
    ELSE IF st.in_click /\ (i - st.click_start) > max_len
    THEN [st EXCEPT !.in_click = FALSE]
    ELSE st

\* One iteration of the grouping loop, for index i (0-based), on the loop
\* state st = [in_click, click_start, clicks].
ScanStep(st, outliers, max_len, i) ==
    IF outliers[i + 1] /\ ~st.in_click
    THEN [st EXCEPT !.in_click = TRUE, !.click_start = i]
    ELSE IF ~outliers[i + 1] /\ st.in_click
    THEN [st EXCEPT
            !.clicks = IF RunAccepted(i - st.click_start, max_len)
                       THEN Append(st.clicks, <<st.click_start, i>>)
                       ELSE st.clicks,
            !.in_click = FALSE]
    ELSE IF st.in_click /\ RunAbandoned(i, st.click_start, max_len)
    THEN [st EXCEPT !.in_click = FALSE]
    ELSE st

RECURSIVE ScanFrom(_, _, _, _)
ScanFrom(st, outliers, max_len, i) ==
    IF i >= Len(outliers) THEN st
    ELSE ScanFrom(ScanStep(st, outliers, max_len, i), outliers, max_len, i + 1)

\* (mutant of CloseAtEnd: a run that reaches the end of the buffer is dropped)
CloseAtEndDiscards(st, outliers, max_len) == st.clicks

\* "Handle click extending to end of file"
CloseAtEnd(st, outliers, max_len) ==
    IF st.in_click /\ RunAccepted(Len(outliers) - st.click_start, max_len)
    THEN Append(st.clicks, <<st.click_start, Len(outliers)>>)
    ELSE st.clicks

\* the grouping of a mask into regions
GroupClicks(outliers, max_len) ==
    CloseAtEnd(ScanFrom([in_click |-> FALSE, click_start |-> 0, clicks |-> <<>>],
                        outliers, max_len, 0),
               outliers, max_len)

detect_clicks(a, kernel_size, thr, max_len) ==
    GroupClicks(Outliers(a, kernel_size, thr), max_len)

----------------------------------------------------------------------------
(* interpolate_clicks *)

\* context = 5: support samples taken on each side of a region
context == 5

\* list(range(lo, hi))
RangeList(lo, hi) == [j \in 1..Max(hi - lo, 0) |-> lo + j - 1]

\* list(a[lo:hi]) for 0 <= lo: a Python slice, clipped to the buffer
SliceList(a, lo, hi) ==
    LET l == Min(lo, Len(a))
        h == Min(hi, Len(a))
    IN [j \in 1..Max(h - l, 0) |-> a[l + j]]

pre_start(region) == Max(0, region[1] - context)
\* (mutant of post_end: one sample too many after the region)
post_endWide(a, region) == Min(Len(a), region[2] + context + 1)

post_end(a, region) == Min(Len(a), region[2] + context)

x_points(a, region) ==
    RangeList(pre_start(region), region[1]) \o RangeList(region[2], post_end(a, region))

y_points(a, region) ==
    SliceList(a, pre_start(region), region[1]) \o SliceList(a, region[2], post_end(a, region))

\* A sample of the corrected buffer.  The arithmetic of the spline is not
\* reproduced: an interpolated sample is kept as the term "interpolant of this
\* kind through (xs, ys), evaluated at x", which is what determines its value;
\* a sample copied from the input is the term InputSample(v).
InputSample(v) == [kind |-> "input", x |-> 0, xs |-> <<>>, ys |-> <<v>>]
InterpSample(kind, xs, ys, x) == [kind |-> kind, x |-> x, xs |-> xs, ys |-> ys]

\* corrected = audio.copy()
CopyBuffer(a) == [i1 \in 1..Len(a) |-> InputSample(a[i1])]

\* interp1d(..., kind='cubic') raises unless there are at least 4 points
CubicFits(xs) == Len(xs) >= 4
\* (mutant of LinearFits: there is no linear fallback)
LinearFitsNever(xs) == FALSE

\* interp1d(..., kind='linear') raises unless there are at least 2 points
LinearFits(xs) == Len(xs) >= 2

\* (mutant of AssignInterpolated: the slice written is [start, end], one too long)
AssignInterpolatedInclusive(cor, region, kind, xs, ys) ==
    [i1 \in 1..Len(cor) |->
        IF region[1] <= i1 - 1 /\ i1 - 1 <= region[2]
        THEN [kind |-> kind, x |-> i1 - 1, xs |-> xs, ys |-> ys]
        ELSE cor[i1]]

\* corrected[start:end] = interpolator(range(start, end))
AssignInterpolated(cor, region, kind, xs, ys) ==
    [i1 \in 1..Len(cor) |->
        IF region[1] <= i1 - 1 /\ i1 - 1 < region[2]
        THEN InterpSample(kind, xs, ys, i1 - 1)
        ELSE cor[i1]]

\* (mutant of SkipRegion: the region that cannot be interpolated is zeroed)
SkipRegionZeroed(cor, region) ==
    [i1 \in 1..Len(cor) |->
        IF region[1] <= i1 - 1 /\ i1 - 1 < region[2]
        THEN [kind |-> "input", x |-> 0, xs |-> <<>>, ys |-> <<0>>]
        ELSE cor[i1]]

\* "continue": the region is left as it is
SkipRegion(cor, region) == cor

\* (mutant of CorrectRegion: the support values are read from the buffer being
\* corrected; an interpolated sample stands for a value other than the input's)
CorrectRegionReadsCorrected(a, cor, region) ==
    LET xs == x_points(a, region)
        ys == [j \in 1..Len(xs) |->
                  LET c == cor[xs[j] + 1]
                  IN IF c.kind = "input" THEN c.ys[1] ELSE 100 + c.x]
    IN IF Len(xs) < 2 THEN cor
       ELSE IF Len(xs) >= 4
       THEN [i1 \in 1..Len(cor) |->
               IF region[1] <= i1 - 1 /\ i1 - 1 < region[2]
               THEN [kind |-> "cubic", x |-> i1 - 1, xs |-> xs, ys |-> ys]
               ELSE cor[i1]]
       ELSE [i1 \in 1..Len(cor) |->
               IF region[1] <= i1 - 1 /\ i1 - 1 < region[2]
               THEN [kind |-> "linear", x |-> i1 - 1, xs |-> xs, ys |-> ys]
               ELSE cor[i1]]

\* the body of the loop over the regions, for one region
CorrectRegion(a, cor, region) ==
    LET xs == x_points(a, region)
        ys == y_points(a, region)
    IN IF Len(xs) < 2 THEN SkipRegion(cor, region)
       ELSE IF CubicFits(xs) THEN AssignInterpolated(cor, region, "cubic", xs, ys)
       ELSE IF LinearFits(xs) THEN AssignInterpolated(cor, region, "linear", xs, ys)
       ELSE SkipRegion(cor, region)

\* interpolate_clicks as a function: the loop over the regions, from the k-th
RECURSIVE CorrectFrom(_, _, _, _)
CorrectFrom(a, cor, regions, k) ==
    IF k > Len(regions) THEN cor
    ELSE CorrectFrom(a, CorrectRegion(a, cor, regions[k]), regions, k + 1)

interpolate_clicks(a, regions) == CorrectFrom(a, CopyBuffer(a), regions, 1)

----------------------------------------------------------------------------
(* Inputs *)

\* all buffers of length 1..n over the value set V
Buffers(V, n) == UNION {[1..m -> V] : m \in 1..n}

\* the buffers handed to interpolate_clicks directly: for each length the ramp
\* 1, 2, ..., m (every sample distinct) and the constant buffers
CorrectBuffers ==
    {[i1 \in 1..m |-> i1] : m \in 1..MaxCorrectLen} \cup
    {[i1 \in 1..m |-> v] : m \in 1..MaxCorrectLen, v \in Values}

\* longer buffers, handed to interpolate_clicks with a single region: the
\* ramps 1, 2, ..., m, long enough for a region to have its full context of
\* samples on both sides
LongBuffers == {[i1 \in 1..m |-> i1] : m \in 1..MaxSupportLen}

\* a constant baseline b with the samples [s, s + len) raised to value spike
SpikeSignal(n, b, spike, s, len) ==
    [i1 \in 1..n |-> IF s <= i1 - 1 /\ i1 - 1 < s + len THEN spike ELSE b]

\* well-formed regions of a buffer of length n, and the lists of at most
\* MaxRegions of them (in any order, overlapping or not)
Regions(n) == {<<s, e>> : s \in 0..(n - 1), e \in 1..n} \cap
              {r \in (0..n) \X (0..n) : r[1] < r[2]}
RegionLists(n) == UNION {[1..m -> Regions(n)] : m \in 0..MaxRegions}

----------------------------------------------------------------------------
(* The click remover: process_file's mono path, detect then correct *)

\* a line of the log: the file it belongs to (its 1-based position in the
\* list, 0 outside a batch), the message and the number it carries (0 if none)
LogLine(k, msg, value) == [file |-> k, msg |-> msg, value |-> value]

\* no batch is running
FileIdle ==
    /\ files = <<>>
    /\ fidx = 0
    /\ form = <<>>
    /\ log = <<>>
    /\ disk = <<>>

\* no click detection is running
ClickIdle ==
    /\ window_size = 0
    /\ threshold = 0
    /\ max_length = 0
    /\ clicks = <<>>
    /\ corrected = <<>>
    /\ ri = 0

\* no boundary search is running
TrimIdle ==
    /\ track_start_coarse = 0
    /\ track_start = 0
    /\ track_end_coarse = 0
    /\ track_end = 0
    /\ total_length = 0

\* the window as constructed: nothing running, the button enabled
GuiIdle ==
    /\ processing = FALSE
    /\ process_button = "normal"
    /\ threads = <<>>
    /\ request = <<>>
    /\ messagebox = "none"

\* no encoder has been run, and no output folder is in use
EncoderIdle ==
    /\ encoder = <<>>
    /\ output_dir = <<>>

ToolIdle == GuiIdle /\ EncoderIdle

\* an enumerated signal with the parameters read from the form
InitEnumerated ==
    /\ audio \in Buffers(Values, MaxLen)
    /\ window_size \in WindowSizes
    /\ threshold \in Thresholds
    /\ max_length \in MaxLengths

\* a synthetic signal: constant baseline, with or without one spike
InitSpike ==
    /\ \E n \in 1..MaxSpikeBuf, b \in Baselines, g \in Gains :
         \E s \in 0..(n - 1), len \in 0..Min(n, 8) :
            /\ s + len <= n
            /\ len = 0 => s = 0
            /\ audio = SpikeSignal(n, b, g * b, s, len)
    /\ window_size \in SpikeWindowSizes
    /\ threshold \in SpikeThresholds
    /\ max_length \in SpikeMaxLengths

\* an enumerated signal over three levels, so that the deviations from the
\* baseline take several values
InitRipple ==
    /\ audio \in Buffers(RippleValues, MaxRippleLen)
    /\ window_size \in WindowSizes
    /\ threshold \in Thresholds
    /\ max_length \in MaxLengths

InitClick ==
    /\ InitEnumerated \/ InitSpike
    /\ sample_rate = 44100
    /\ clicks = <<>>
    /\ corrected = <<>>
    /\ ri = 0
    /\ pc = "detect"
    /\ TrimIdle
    /\ FileIdle
    /\ ToolIdle

\* clicks = self.detect_clicks(audio, sample_rate, window_size, threshold, max_length)
\* self.log(f"    Detected {len(clicks)} clicks")
DetectClicks ==
    /\ pc = "detect"
    /\ clicks' = detect_clicks(audio, window_size, threshold, max_length)
    /\ pc' = "correct"
    /\ log' = Append(log, LogLine(fidx, "Detected", Len(clicks')))
    /\ UNCHANGED <<audio, sample_rate, window_size, threshold, max_length,
                   corrected, ri>>
    /\ UNCHANGED trimVars
    /\ UNCHANGED <<files, fidx, form, disk>>
    /\ UNCHANGED toolVars

\* entry of interpolate_clicks: corrected = audio.copy()
InterpolateEnter ==
    /\ pc = "correct"
    /\ corrected' = CopyBuffer(audio)
    /\ ri' = 0
    /\ pc' = "interpolate"
    /\ UNCHANGED <<audio, sample_rate, window_size, threshold, max_length, clicks>>
    /\ UNCHANGED trimVars
    /\ UNCHANGED fileVars
    /\ UNCHANGED toolVars

\* one iteration of "for start, end in clicks"
InterpolateRegion ==
    /\ pc = "interpolate"
    /\ ri < Len(clicks)
    /\ corrected' = CorrectRegion(audio, corrected, clicks[ri + 1])
    /\ ri' = ri + 1
    /\ UNCHANGED <<audio, sample_rate, window_size, threshold, max_length,
                   clicks, pc>>
    /\ UNCHANGED trimVars
    /\ UNCHANGED fileVars
    /\ UNCHANGED toolVars

\* return corrected
InterpolateReturn ==
    /\ pc = "interpolate"
    /\ ri = Len(clicks)
    /\ pc' = "done"
    /\ UNCHANGED <<audio, sample_rate, window_size, threshold, max_length,
                   clicks, corrected, ri>>
    /\ UNCHANGED trimVars
    /\ UNCHANGED fileVars
    /\ UNCHANGED toolVars

NextClick == DetectClicks \/ InterpolateEnter \/ InterpolateRegion \/ InterpolateReturn

SpecClick == InitClick /\ [][NextClick]_vars

\* the same path on the three-level signals
InitDetect ==
    /\ InitRipple
    /\ sample_rate = 44100
    /\ clicks = <<>>
    /\ corrected = <<>>
    /\ ri = 0
    /\ pc = "detect"
    /\ TrimIdle
    /\ FileIdle
    /\ ToolIdle

SpecDetect == InitDetect /\ [][NextClick]_vars

----------------------------------------------------------------------------
(* interpolate_clicks called on any buffer with any region list *)

InitCorrect ==
    /\ \/ /\ audio \in CorrectBuffers
          /\ clicks \in RegionLists(Len(audio))
       \/ /\ audio \in LongBuffers
          /\ clicks \in {<<r>> : r \in Regions(Len(audio))}
    /\ sample_rate = 44100
    /\ window_size = 0
    /\ threshold = 0
    /\ max_length = 0
    /\ corrected = <<>>
    /\ ri = 0
    /\ pc = "correct"
    /\ TrimIdle
    /\ FileIdle
    /\ ToolIdle

NextCorrect == InterpolateEnter \/ InterpolateRegion \/ InterpolateReturn

SpecCorrect == InitCorrect /\ [][NextCorrect]_vars

----------------------------------------------------------------------------
(* The click remover's batch: process_files calling process_file per file *)

\* an entry of the form as int() / float() see it: a number, or text that
\* does not parse (ValueError)
Entry(n) == [valid |-> TRUE, value |-> n]
BadEntry == [valid |-> FALSE, value |-> 0]

Form(w, t, m, ov) ==
    [window_size |-> w, threshold_multiplier |-> t, max_click_length |-> m,
     overwrite_originals |-> ov]

\* the forms tried: every window entry with a valid threshold (4.0) and
\* maximum length, and one form per entry that does not parse
Forms ==
    {Form(Entry(w), Entry(40), Entry(2), ov) : w \in FormWindows, ov \in BOOLEAN}
    \cup {Form(BadEntry, Entry(40), Entry(2), FALSE),
          Form(Entry(9), BadEntry, Entry(2), FALSE),
          Form(Entry(9), Entry(40), BadEntry, TRUE)}

\* the state of a file's paths before the batch
FreshFile == [original |-> "intact", output |-> "none", temp |-> "none"]

\* (mutant of WindowRejected: the lower limit is 2)
WindowRejectedBelowTwo(w) == w < 2 \/ w > 25

\* if window_size < 3 or window_size > 25
WindowRejected(w) == w < 3 \/ w > 25

\* (mutant of NormaliseWindow: an even size is left as it is)
NormaliseWindowKeepsEven(w) == w

\* if window_size % 2 == 0: window_size += 1
NormaliseWindow(w) == IF w % 2 = 0 THEN w + 1 ELSE w

\* (mutant of AfterError: the exception leaves the loop of process_files)
AfterErrorLeavesLoop == "finished"

\* where control goes after process_file has logged an error: process_file
\* returns None and the loop of process_files goes on
AfterError == "batch"

InitBatch ==
    /\ files \in UNION {[1..n -> FileSignals] : n \in 0..MaxFiles}
    /\ form \in Forms
    /\ fidx = 0
    /\ log = <<>>
    /\ disk = [k \in 1..Len(files) |-> FreshFile]
    /\ audio = <<>>
    /\ sample_rate = 0
    /\ ClickIdle
    /\ TrimIdle
    /\ ToolIdle
    /\ pc = "start"

\* process_files up to the loop: the files found
FindFiles ==
    /\ pc = "start"
    /\ pc' = IF files = <<>> THEN "finished" ELSE "batch"
    /\ log' = IF files = <<>> THEN log
              ELSE Append(log, LogLine(0, "Found", Len(files)))
    /\ UNCHANGED <<audio, sample_rate, files, fidx, form, disk>>
    /\ UNCHANGED clickVars
    /\ UNCHANGED trimVars
    /\ UNCHANGED toolVars

\* for i, file_path in enumerate(files, 1): self.process_file(file_path, ...)
CallProcessFile ==
    /\ pc = "batch"
    /\ fidx < Len(files)
    /\ fidx' = fidx + 1
    /\ log' = Append(log, LogLine(fidx + 1, "Processing", 0))
    /\ audio' = <<>>
    /\ sample_rate' = 0
    /\ window_size' = 0
    /\ threshold' = 0
    /\ max_length' = 0
    /\ clicks' = <<>>
    /\ corrected' = <<>>
    /\ ri' = 0
    /\ pc' = "params"
    /\ UNCHANGED <<files, form, disk>>
    /\ UNCHANGED trimVars
    /\ UNCHANGED toolVars

\* the loop is over: "Processing complete!"
FinishBatch ==
    /\ pc = "batch"
    /\ fidx = Len(files)
    /\ log' = Append(log, LogLine(0, "Processing complete", Len(files)))
    /\ pc' = "finished"
    /\ UNCHANGED <<audio, sample_rate, files, fidx, form, disk>>
    /\ UNCHANGED clickVars
    /\ UNCHANGED trimVars
    /\ UNCHANGED toolVars

\* "Get parameters": int(), float(), int() of the three entries
GetParameters ==
    /\ pc = "params"
    /\ IF /\ form.window_size.valid
          /\ form.threshold_multiplier.valid
          /\ form.max_click_length.valid
       THEN /\ window_size' = form.window_size.value
            /\ threshold' = form.threshold_multiplier.value
            /\ max_length' = form.max_click_length.value
            /\ pc' = "validate"
            /\ UNCHANGED log
       ELSE /\ log' = Append(log, LogLine(fidx, "Error: Invalid parameter values", 0))
            /\ pc' = "batch"
            /\ UNCHANGED <<window_size, threshold, max_length>>
    /\ UNCHANGED <<audio, sample_rate, clicks, corrected, ri, files, fidx, form, disk>>
    /\ UNCHANGED trimVars
    /\ UNCHANGED toolVars

\* "Validate parameters"
ValidateParameters ==
    /\ pc = "validate"
    /\ IF WindowRejected(window_size)
       THEN /\ log' = Append(log, LogLine(fidx,
                         "Error: Window size must be between 3 and 25", 0))
            /\ pc' = "batch"
            /\ UNCHANGED window_size
       ELSE /\ window_size' = NormaliseWindow(window_size)
            /\ log' = IF window_size % 2 = 0
                      THEN Append(log, LogLine(fidx, "Adjusted window size to",
                                               window_size'))
                      ELSE log
            /\ pc' = "read"
    /\ UNCHANGED <<audio, sample_rate, threshold, max_length, clicks, corrected,
                   ri, files, fidx, form, disk>>
    /\ UNCHANGED trimVars
    /\ UNCHANGED toolVars

\* audio, sample_rate = sf.read(file_path, dtype='float32')  (or the chunked read)
ReadFile ==
    /\ pc = "read"
    /\ audio' = files[fidx]
    /\ sample_rate' = 44100
    /\ log' = Append(log, LogLine(fidx, "Loading audio file...", 0))
    /\ pc' = "detect"
    /\ UNCHANGED <<files, fidx, form, disk>>
    /\ UNCHANGED clickVars
    /\ UNCHANGED trimVars
    /\ UNCHANGED toolVars

\* the read raises: a MemoryError followed by a failing chunked read (logged,
\* return), or any other exception (caught by the outer handler)
ReadFileFails ==
    /\ pc = "read"
    /\ \E msg \in {"Error: Unable to load file even with chunked reading",
                   "Error processing file"} :
          log' = log \o <<LogLine(fidx, "Loading audio file...", 0),
                          LogLine(fidx, msg, 0)>>
    /\ pc' = AfterError
    /\ UNCHANGED <<audio, sample_rate, files, fidx, form, disk>>
    /\ UNCHANGED clickVars
    /\ UNCHANGED trimVars
    /\ UNCHANGED toolVars

\* detect_clicks or interpolate_clicks raises (a MemoryError of numpy, say):
\* caught by the outer handler
ProcessingFails ==
    /\ pc \in {"detect", "correct"}
    /\ log' = Append(log, LogLine(fidx, "Error processing file", 0))
    /\ pc' = AfterError
    /\ UNCHANGED <<audio, sample_rate, files, fidx, form, disk>>
    /\ UNCHANGED clickVars
    /\ UNCHANGED trimVars
    /\ UNCHANGED toolVars

\* "Determine output file" and "Save processed audio": sf.write to the temp
\* file next to the original (overwrite mode) or to <stem>_declick in the
\* output folder
SaveAudio ==
    /\ pc = "done"
    /\ disk' = IF form.overwrite_originals
               THEN [disk EXCEPT ![fidx].temp = "written"]
               ELSE [disk EXCEPT ![fidx].output = "written"]
    /\ log' = log \o <<LogLine(fidx, "Saving cleaned audio...", 0),
                       LogLine(fidx, "Saved to", 0)>>
    /\ pc' = IF form.overwrite_originals THEN "replace" ELSE "complete"
    /\ UNCHANGED <<audio, sample_rate, files, fidx, form>>
    /\ UNCHANGED clickVars
    /\ UNCHANGED trimVars
    /\ UNCHANGED toolVars

\* mkdir or sf.write raises, leaving no file or a partial one: caught by the
\* outer handler
SaveFails ==
    /\ pc = "done"
    /\ \E left \in {"none", "partial"} :
          disk' = IF form.overwrite_originals
                  THEN [disk EXCEPT ![fidx].temp = left]
                  ELSE [disk EXCEPT ![fidx].output = left]
    /\ log' = log \o <<LogLine(fidx, "Saving cleaned audio...", 0),
                       LogLine(fidx, "Error processing file", 0)>>
    /\ pc' = AfterError
    /\ UNCHANGED <<audio, sample_rate, files, fidx, form>>
    /\ UNCHANGED clickVars
    /\ UNCHANGED trimVars
    /\ UNCHANGED toolVars

\* "If overwriting, replace original file": unlink, then rename
ReplaceOriginal ==
    /\ pc = "replace"
    /\ disk' = [disk EXCEPT ![fidx].original = "replaced", ![fidx].temp = "none"]
    /\ log' = Append(log, LogLine(fidx, "Replaced original file", 0))
    /\ pc' = "complete"
    /\ UNCHANGED <<audio, sample_rate, files, fidx, form>>
    /\ UNCHANGED clickVars
    /\ UNCHANGED trimVars
    /\ UNCHANGED toolVars

\* unlink or rename raises: the handler logs and deletes the temp file
ReplaceFails ==
    /\ pc = "replace"
    /\ \E at \in {"unlink", "rename"} :
          disk' = [disk EXCEPT
                     ![fidx].original = IF at = "unlink" THEN "intact" ELSE "missing",
                     ![fidx].temp = "none"]
    /\ log' = Append(log, LogLine(fidx, "Error replacing original", 0))
    /\ pc' = "complete"
    /\ UNCHANGED <<audio, sample_rate, files, fidx, form>>
    /\ UNCHANGED clickVars
    /\ UNCHANGED trimVars
    /\ UNCHANGED toolVars

\* "Completed!": process_file returns to the loop
Complete ==
    /\ pc = "complete"
    /\ log' = Append(log, LogLine(fidx, "Completed", Len(clicks)))
    /\ pc' = "batch"
    /\ UNCHANGED <<audio, sample_rate, files, fidx, form, disk>>
    /\ UNCHANGED clickVars
    /\ UNCHANGED trimVars
    /\ UNCHANGED toolVars

NextBatch ==
    \/ FindFiles \/ CallProcessFile \/ FinishBatch
    \/ GetParameters \/ ValidateParameters
    \/ ReadFile \/ ReadFileFails
    \/ DetectClicks \/ InterpolateEnter \/ InterpolateRegion \/ InterpolateReturn
    \/ ProcessingFails
    \/ SaveAudio \/ SaveFails \/ ReplaceOriginal \/ ReplaceFails \/ Complete

SpecBatch == InitBatch /\ [][NextBatch]_vars

----------------------------------------------------------------------------
(* detect_silence *)

\* int(0.5 * sample_rate) and int(0.1 * sample_rate)
coarse_samples(sr) == sr \div 2
fine_samples(sr) == sr \div 10

\* int(t * sample_rate) for a time t = i / sample_rate carried as i.  The
\* float round trip is exact at the sample rates of SampleRates.
SecondsToSamples(t) == t

\* sum of frame ** 2
RECURSIVE SumSq(_)
SumSq(frame) ==
    IF frame = <<>> THEN 0
    ELSE frame[1] * frame[1] + SumSq(Tail(frame))

\* (mutant of FrameMatches: the division is guarded, 0 / (0 + eps) = 0)
FrameMatchesGuarded(frame, a) ==
    /\ Len(frame) * SumSq(a) <= 4 * Len(a) * SumSq(frame)
    /\ 4 * Len(a) * SumSq(frame) <= 9 * Len(frame) * SumSq(a)

\* distance_ratio <= threshold_multiplier, with
\*   distance_ratio = abs(frame_rms - overall_rms) / overall_rms
\* and threshold_multiplier = 0.5: 0.5 * overall <= frame_rms <= 1.5 * overall,
\* compared on the squares, mean(frame^2) against mean(audio^2).  When
\* overall_rms is 0 the ratio is 0/0 = nan and the comparison is False.
FrameMatches(frame, a) ==
    LET f == SumSq(frame)
        t == SumSq(a)
    IN /\ t > 0
       /\ Len(frame) * t <= 4 * Len(a) * f
       /\ 4 * Len(a) * f <= 9 * Len(frame) * t

\* len(frame) < size * 0.5
FrameTooSmall(frame, size) == 2 * Len(frame) < size

\* for i in range(i, stop, step): the first i whose frame audio[i:i+size]
\* matches, or -1 when the loop ends (or breaks on a short frame) without one
RECURSIVE ScanForward(_, _, _, _, _)
ScanForward(a, i, stop, step, size) ==
    IF i >= stop THEN -1
    ELSE LET frame == SliceList(a, i, i + size) IN
         IF FrameTooSmall(frame, size) THEN -1
         ELSE IF FrameMatches(frame, a) THEN i
         ELSE ScanForward(a, i + step, stop, step, size)

\* for i in range(i, stop, -step): likewise, scanning towards the start
RECURSIVE ScanBackward(_, _, _, _, _)
ScanBackward(a, i, stop, step, size) ==
    IF i <= stop THEN -1
    ELSE LET frame == SliceList(a, i, i + size) IN
         IF FrameTooSmall(frame, size) THEN -1
         ELSE IF FrameMatches(frame, a) THEN i
         ELSE ScanBackward(a, i - step, stop, step, size)

\* Phase 1: track_start_coarse
CoarseStart(a, sr) ==
    LET i == ScanForward(a, 0, Len(a), coarse_samples(sr), coarse_samples(sr))
    IN IF i = -1 THEN 0 ELSE i

\* Phase 2: track_start_fine
FineStart(a, sr, start_coarse) ==
    LET start_sample == Max(0, SecondsToSamples(start_coarse) - coarse_samples(sr))
        i == ScanForward(a, start_sample,
                         Min(start_sample + coarse_samples(sr) * 2, Len(a)),
                         fine_samples(sr), fine_samples(sr))
    IN IF i = -1 THEN start_coarse ELSE i

\* Phase 3: track_end_coarse
CoarseEnd(a, sr, total) ==
    LET i == ScanBackward(a, Len(a) - coarse_samples(sr), 0,
                          coarse_samples(sr), coarse_samples(sr))
    IN IF i = -1 THEN total ELSE i + coarse_samples(sr)

\* (mutant of FineEnd: the start of the matching frame is returned, not its end)
FineEndFrameStart(a, sr, end_coarse) ==
    LET end_sample == Min(Len(a), end_coarse + coarse_samples(sr))
        i == ScanBackward(a, end_sample - fine_samples(sr),
                          Max(end_sample - coarse_samples(sr) * 2, 0),
                          fine_samples(sr), fine_samples(sr))
    IN IF i = -1 THEN end_coarse ELSE i

\* Phase 4: track_end_fine
FineEnd(a, sr, end_coarse) ==
    LET end_sample == Min(Len(a), SecondsToSamples(end_coarse) + coarse_samples(sr))
        i == ScanBackward(a, end_sample - fine_samples(sr),
                          Max(end_sample - coarse_samples(sr) * 2, 0),
                          fine_samples(sr), fine_samples(sr))
    IN IF i = -1 THEN end_coarse ELSE i + fine_samples(sr)

\* K zero samples followed by T samples of amplitude amp
SilenceThenTone(K, T, amp) == [i1 \in 1..(K + T) |-> IF i1 <= K THEN 0 ELSE amp]

\* an on/off signal at 10 Hz
InitPulses ==
    /\ audio \in Buffers(Values, MaxTrimLen)
    /\ sample_rate = 10

\* digital silence carrying one to three unit pulses, at 10 Hz
PulseSignal(n, P) == [i1 \in 1..n |-> IF (i1 - 1) \in P THEN 1 ELSE 0]

InitSparse ==
    /\ \E n \in 1..MaxSparseLen :
          \E p1 \in 0..(n - 1) : \E p2 \in p1..(n - 1) : \E p3 \in p2..(n - 1) :
             audio = PulseSignal(n, {p1, p2, p3})
    /\ sample_rate = 10

\* lead-in silence followed by a constant tone (no silence when K = 0)
InitTone ==
    /\ \E K \in 0..MaxSilence, T \in 1..MaxTone, amp \in ToneAmplitudes :
          audio = SilenceThenTone(K, T, amp)
    /\ sample_rate \in SampleRates

InitSilence ==
    /\ InitPulses \/ InitSparse \/ InitTone
    /\ pc = "load"
    /\ TrimIdle
    /\ ClickIdle
    /\ FileIdle
    /\ ToolIdle

\* total_length = len(audio) / sample_rate
LoadAudio ==
    /\ pc = "load"
    /\ total_length' = Len(audio)
    /\ pc' = "phase1"
    /\ UNCHANGED <<audio, sample_rate, track_start_coarse, track_start,
                   track_end_coarse, track_end>>
    /\ UNCHANGED clickVars
    /\ UNCHANGED fileVars
    /\ UNCHANGED toolVars

Phase1 ==
    /\ pc = "phase1"
    /\ coarse_samples(sample_rate) > 0
    /\ track_start_coarse' = CoarseStart(audio, sample_rate)
    /\ pc' = "phase2"
    /\ UNCHANGED <<audio, sample_rate, track_start, track_end_coarse, track_end,
                   total_length>>
    /\ UNCHANGED clickVars
    /\ UNCHANGED fileVars
    /\ UNCHANGED toolVars

Phase2 ==
    /\ pc = "phase2"
    /\ fine_samples(sample_rate) > 0
    /\ track_start' = FineStart(audio, sample_rate, track_start_coarse)
    /\ pc' = "phase3"
    /\ UNCHANGED <<audio, sample_rate, track_start_coarse, track_end_coarse,
                   track_end, total_length>>
    /\ UNCHANGED clickVars
    /\ UNCHANGED fileVars
    /\ UNCHANGED toolVars

Phase3 ==
    /\ pc = "phase3"
    /\ track_end_coarse' = CoarseEnd(audio, sample_rate, total_length)
    /\ pc' = "phase4"
    /\ UNCHANGED <<audio, sample_rate, track_start_coarse, track_start, track_end,
                   total_length>>
    /\ UNCHANGED clickVars
    /\ UNCHANGED fileVars
    /\ UNCHANGED toolVars

\* Phase 4, then "return track_start, track_end, total_length"
Phase4 ==
    /\ pc = "phase4"
    /\ track_end' = FineEnd(audio, sample_rate, track_end_coarse)
    /\ pc' = "returned"
    /\ UNCHANGED <<audio, sample_rate, track_start_coarse, track_start,
                   track_end_coarse, total_length>>
    /\ UNCHANGED clickVars
    /\ UNCHANGED fileVars
    /\ UNCHANGED toolVars

\* range() with a step of 0 raises ValueError; the handler returns
\* (None, None, 0): pc = "failed" stands for the two None results
SilenceError ==
    /\ pc = IF coarse_samples(sample_rate) = 0 THEN "phase1" ELSE "phase2"
    /\ fine_samples(sample_rate) = 0
    /\ pc' = "failed"
    /\ total_length' = 0
    /\ UNCHANGED <<audio, sample_rate, track_start_coarse, track_start,
                   track_end_coarse, track_end>>
    /\ UNCHANGED clickVars
    /\ UNCHANGED fileVars
    /\ UNCHANGED toolVars

NextSilence == LoadAudio \/ Phase1 \/ Phase2 \/ Phase3 \/ Phase4 \/ SilenceError

SpecSilence == InitSilence /\ [][NextSilence]_vars

----------------------------------------------------------------------------
(* process_file of the trimmer: detect_silence, the guards, the encoder *)

\* if duration <= 0: "Skipped: Invalid duration"
\* (mutant of ValidDuration: any duration is encoded)
ValidDurationAny(duration) == TRUE

ValidDuration(duration) == duration > 0

\* (mutant of EncodeSucceeded: the return code is not looked at)
EncodeSucceededAlways(returncode) == TRUE

\* if result.returncode == 0
EncodeSucceeded(returncode) == returncode = 0

\* one file, with or without 'Overwrite original files'
InitTrim ==
    /\ InitPulses \/ InitSparse \/ InitTone
    /\ pc = "load"
    /\ TrimIdle
    /\ ClickIdle
    /\ GuiIdle
    /\ files = <<audio>>
    /\ fidx = 1
    /\ form \in [overwrite_originals : BOOLEAN]
    /\ log = <<LogLine(1, "Processing", 0)>>
    /\ disk = <<FreshFile>>
    /\ encoder = <<>>
    /\ output_dir = <<>>

\* if track_start is None or track_end is None: skipped
SkipNoBoundary ==
    /\ pc = "failed"
    /\ log' = Append(log, LogLine(fidx, "Skipped: Could not detect silence", 0))
    /\ pc' = "exit"
    /\ UNCHANGED <<audio, sample_rate, files, fidx, form, disk>>
    /\ UNCHANGED <<clickVars, trimVars, toolVars>>

\* duration = track_end - track_start; if duration <= 0: skipped
SkipInvalidDuration ==
    /\ pc = "returned"
    /\ ~ValidDuration(track_end - track_start)
    /\ log' = Append(log, LogLine(fidx, "Skipped: Invalid duration",
                                  track_end - track_start))
    /\ pc' = "exit"
    /\ UNCHANGED <<audio, sample_rate, files, fidx, form, disk>>
    /\ UNCHANGED <<clickVars, trimVars, toolVars>>

\* cmd = [ffmpeg, '-i', file, '-ss', track_start, '-t', duration, ...,
\* output_path, '-y']; subprocess.run(cmd).  The output is the temp file next
\* to the original (overwrite mode) or <stem>_trimmed in the output folder; a
\* run that fails leaves no output or a partial one.
RunEncoder ==
    /\ pc = "returned"
    /\ ValidDuration(track_end - track_start)
    /\ \E returncode \in {0, 1} : \E left \in {"none", "partial"} :
        LET written == IF returncode = 0 THEN "written" ELSE left IN
        /\ returncode = 0 => left = "none"
        /\ encoder' = Append(encoder, [input |-> fidx,
                                       ss |-> track_start,
                                       t |-> track_end - track_start,
                                       returncode |-> returncode])
        /\ disk' = IF form.overwrite_originals
                   THEN [disk EXCEPT ![fidx].temp = written]
                   ELSE [disk EXCEPT ![fidx].output = written]
        /\ log' = Append(log, LogLine(fidx, IF EncodeSucceeded(returncode)
                                            THEN "Saved to" ELSE "FFmpeg error",
                                      returncode))
        /\ pc' = IF EncodeSucceeded(returncode)
                 THEN (IF form.overwrite_originals THEN "replace" ELSE "exit")
                 ELSE "exit"
    /\ UNCHANGED <<audio, sample_rate, files, fidx, form>>
    /\ UNCHANGED <<clickVars, trimVars, guiVars, output_dir>>

\* mkdir or subprocess.run raises before the encoder ran: the outer handler
EncoderNotRun ==
    /\ pc = "returned"
    /\ ValidDuration(track_end - track_start)
    /\ log' = Append(log, LogLine(fidx, "Error processing file", 0))
    /\ pc' = "exit"
    /\ UNCHANGED <<audio, sample_rate, files, fidx, form, disk>>
    /\ UNCHANGED <<clickVars, trimVars, toolVars>>

\* after the replacement of the original process_file returns
TrimReturn ==
    /\ pc = "complete"
    /\ pc' = "exit"
    /\ UNCHANGED <<audio, sample_rate>>
    /\ UNCHANGED <<clickVars, trimVars, fileVars, toolVars>>

\* the replacement of the original (lines 516-527) is the click remover's:
\* unlink, rename, and a handler that removes the temp file
NextTrim ==
    \/ LoadAudio \/ Phase1 \/ Phase2 \/ Phase3 \/ Phase4 \/ SilenceError
    \/ SkipNoBoundary \/ SkipInvalidDuration
    \/ RunEncoder \/ EncoderNotRun
    \/ ReplaceOriginal \/ ReplaceFails \/ TrimReturn

SpecTrim == InitTrim /\ [][NextTrim]_vars

-----------------------------------------------------------------------------
(* convert_file of the converter: the choice of the output path *)

\* most input files of a conversion batch
MaxInputs == 2

\* A file name without its extension, as the list of its parts between
\* underscores: <<"a">> is "a" and <<"a", 1>> is "a_1", so that the name built
\* for the stem "a" with counter 1 is the name of the stem "a_1".
Stems == {<<"a">>, <<"a", 1>>}

\* f"{file_path.stem}_{counter}{output_ext}"
NumberedPath(stem, counter) == Append(stem, counter)

\* names that may be in the output folder before the batch
OldNames == Stems \cup {NumberedPath(<<"a">>, 2), NumberedPath(<<"a", 1>>, 1)}

\* output_path.exists()
Exists(dir, output_path) == output_path \in DOMAIN dir

\* (mutant of FreePath: one numbered name is tried, without a second look)
FreePathOnce(dir, stem, output_path, counter) ==
    IF Exists(dir, output_path) THEN NumberedPath(stem, counter) ELSE output_path

\* while output_path.exists(): output_path = stem_counter; counter += 1
RECURSIVE FreePath(_, _, _, _)
FreePath(dir, stem, output_path, counter) ==
    IF Exists(dir, output_path)
    THEN FreePath(dir, stem, NumberedPath(stem, counter), counter + 1)
    ELSE output_path

\* ffmpeg -y output_path: the file at output_path is created or replaced
WriteFile(dir, output_path, content) ==
    [n \in DOMAIN dir \cup {output_path} |->
        IF n = output_path THEN content ELSE dir[n]]

\* the files found, by stem, and the output folder as the batch finds it
InitConvert ==
    /\ files \in UNION {[1..n -> Stems] : n \in 0..MaxInputs}
    /\ \E old \in SUBSET OldNames : output_dir = [n \in old |-> "old"]
    /\ fidx = 0
    /\ form = <<>>
    /\ log = <<>>
    /\ disk = <<>>
    /\ encoder = <<>>
    /\ audio = <<>>
    /\ sample_rate = 0
    /\ pc = "convert"
    /\ ClickIdle
    /\ TrimIdle
    /\ GuiIdle

\* convert_file for the next file: the output path is chosen and ffmpeg is
\* run on it; a failed run leaves no file or a partial one
ConvertFile ==
    /\ pc = "convert"
    /\ fidx < Len(files)
    /\ LET k == fidx + 1
           stem == files[k]
           output_path == FreePath(output_dir, stem, stem, 1)
       IN \E returncode \in {0, 1} : \E left \in {"none", "partial"} :
            /\ returncode = 0 => left = "none"
            /\ encoder' = Append(encoder, [input |-> k,
                                           output |-> output_path,
                                           before |-> DOMAIN output_dir,
                                           returncode |-> returncode])
            /\ output_dir' =
                 IF returncode = 0
                 THEN WriteFile(output_dir, output_path, [input |-> k, complete |-> TRUE])
                 ELSE IF left = "partial"
                 THEN WriteFile(output_dir, output_path, [input |-> k, complete |-> FALSE])
                 ELSE output_dir
            /\ log' = Append(log, LogLine(k, IF returncode = 0 THEN "Saved to"
                                             ELSE "FFmpeg error", returncode))
            /\ fidx' = k
    /\ UNCHANGED <<audio, sample_rate, pc, files, form, disk>>
    /\ UNCHANGED <<clickVars, trimVars, guiVars>>

\* subprocess.run raises: the handler of convert_file logs the error
ConvertFileRaises ==
    /\ pc = "convert"
    /\ fidx < Len(files)
    /\ log' = Append(log, LogLine(fidx + 1, "Error converting file", 0))
    /\ fidx' = fidx + 1
    /\ UNCHANGED <<audio, sample_rate, pc, files, form, disk>>
    /\ UNCHANGED <<clickVars, trimVars, toolVars>>

\* the end of the loop over the files
FinishConvert ==
    /\ pc = "convert"
    /\ fidx = Len(files)
    /\ pc' = "finished"
    /\ log' = Append(log, LogLine(0, "Conversion complete", Len(files)))
    /\ UNCHANGED <<audio, sample_rate, files, fidx, form, disk>>
    /\ UNCHANGED <<clickVars, trimVars, toolVars>>

NextConvert == ConvertFile \/ ConvertFileRaises \/ FinishConvert

SpecConvert == InitConvert /\ [][NextConvert]_vars

-----------------------------------------------------------------------------
(* process_file of the click remover on a stereo file *)

\* longest stereo buffer, in frames
MaxStereoLen == 4

\* the array in memory after sf.read: each sample as read from the file
ReadFrames(frames) ==
    [i1 \in 1..Len(frames) |-> <<InputSample(frames[i1][1]),
                                 InputSample(frames[i1][2])>>]

\* audio[:, ch]: the values of one column of the array.  Only a column that
\* has not been written back is read, and its samples are those of the file.
Channel(a, ch) == [i1 \in 1..Len(a) |-> a[i1][ch + 1].ys[1]]

\* (mutant of AssignChannel: the column written is always the left one)
AssignChannelLeft(a, ch, column) ==
    [i1 \in 1..Len(a) |-> [a[i1] EXCEPT ![1] = column[i1]]]

\* audio[:, ch] = column: the other column is left as it is
AssignChannel(a, ch, column) ==
    [i1 \in 1..Len(a) |-> [a[i1] EXCEPT ![ch + 1] = column[i1]]]

\* A stereo file, a list of (left, right) frames, read into the array, with
\* the parameters read from the form.  The array is corrected in place: a
\* column that has been written back holds samples of the corrected buffer.
InitStereo ==
    /\ files \in {<<frames>> : frames \in Buffers(Values \X Values, MaxStereoLen)}
    /\ audio = ReadFrames(files[1])
    /\ sample_rate = 44100
    /\ window_size \in WindowSizes
    /\ threshold \in Thresholds
    /\ max_length \in MaxLengths
    /\ clicks = <<>>
    /\ corrected = <<>>
    /\ ri = 0
    /\ pc = "left"
    /\ fidx = 1
    /\ form = <<>>
    /\ log = <<>>
    /\ disk = <<>>
    /\ TrimIdle
    /\ ToolIdle

\* clicks_left = detect_clicks(audio[:, 0], ...);
\* audio[:, 0] = interpolate_clicks(audio[:, 0], clicks_left)
ProcessLeft ==
    /\ pc = "left"
    /\ LET clicks_left == detect_clicks(Channel(audio, 0), window_size,
                                        threshold, max_length)
       IN /\ clicks' = <<clicks_left>>
          /\ audio' = AssignChannel(audio, 0,
                          interpolate_clicks(Channel(audio, 0), clicks_left))
          /\ log' = Append(log, LogLine(fidx, "Detected", Len(clicks_left)))
    /\ pc' = "right"
    /\ UNCHANGED <<sample_rate, window_size, threshold, max_length, corrected, ri>>
    /\ UNCHANGED <<files, fidx, form, disk>>
    /\ UNCHANGED <<trimVars, toolVars>>

\* clicks_right = detect_clicks(audio[:, 1], ...);
\* audio[:, 1] = interpolate_clicks(audio[:, 1], clicks_right)
ProcessRight ==
    /\ pc = "right"
    /\ LET clicks_right == detect_clicks(Channel(audio, 1), window_size,
                                         threshold, max_length)
       IN /\ clicks' = Append(clicks, clicks_right)
          /\ audio' = AssignChannel(audio, 1,
                          interpolate_clicks(Channel(audio, 1), clicks_right))
          /\ log' = Append(log, LogLine(fidx, "Detected", Len(clicks_right)))
    /\ pc' = "done"
    /\ UNCHANGED <<sample_rate, window_size, threshold, max_length, corrected, ri>>
    /\ UNCHANGED <<files, fidx, form, disk>>
    /\ UNCHANGED <<trimVars, toolVars>>

NextStereo == ProcessLeft \/ ProcessRight

SpecStereo == InitStereo /\ [][NextStereo]_vars

-----------------------------------------------------------------------------
(* Vocabulary of the properties *)

InRegion(i, r) == r[1] <= i /\ i < r[2]

Indices(a) == 0..(Len(a) - 1)

\* number of support points of a region, as the specification counts them
SupportCount(a, r) == Min(r[1], context) + Min(Len(a) - r[2], context)

\* the maximal runs [a, b) of consecutive TRUE entries of a mask
MaximalRuns(mask) ==
    {run \in (0..Len(mask)) \X (0..Len(mask)) :
        /\ run[1] < run[2]
        /\ \A i \in run[1]..(run[2] - 1) : mask[i + 1]
        /\ run[1] = 0 \/ ~mask[run[1]]
        /\ run[2] = Len(mask) \/ ~mask[run[2] + 1]}

Detected == pc \in {"correct", "interpolate", "done"}

IsConstant(a) == \A i1 \in 1..Len(a) : a[i1] = a[1]

HalfWindow == (window_size - 1) \div 2

----------------------------------------------------------------------------
(* Properties of interpolate_clicks, checked under SpecCorrect *)

\* C1: whatever the region list, every sample index that lies inside no region
\* of the list holds the input sample in the corrected buffer, at every point
\* of the loop and on return, and the buffer keeps its length.
CorrectionLocality ==
    pc \in {"interpolate", "done"} =>
        /\ Len(corrected) = Len(audio)
        /\ \A i \in Indices(audio) :
              (\A k \in 1..Len(clicks) : ~InRegion(i, clicks[k]))
                  => corrected[i + 1] = InputSample(audio[i + 1])

\* a returned buffer with a sample from the cubic path, one from the linear
\* path and an index outside every region
CorrectionLocalityWitness ==
    /\ pc = "done"
    /\ \E i \in Indices(audio) : corrected[i + 1].kind = "cubic"
    /\ \E i \in Indices(audio) : corrected[i + 1].kind = "linear"
    /\ \E i \in Indices(audio) : \A k \in 1..Len(clicks) : ~InRegion(i, clicks[k])

\* C7: on return, a region with fewer than 2 support points holds the input
\* samples (wherever no interpolated region of the list covers them), the
\* buffer has the length of the input, and every region that follows it in the
\* list and has at least 2 support points has been interpolated.
FallbackSafety ==
    pc = "done" =>
        /\ Len(corrected) = Len(audio)
        /\ \A k \in 1..Len(clicks) :
              SupportCount(audio, clicks[k]) < 2 =>
                 /\ \A i \in Indices(audio) :
                       ( /\ InRegion(i, clicks[k])
                         /\ \A j \in 1..Len(clicks) :
                               SupportCount(audio, clicks[j]) >= 2
                                   => ~InRegion(i, clicks[j]) )
                       => corrected[i + 1] = InputSample(audio[i + 1])
                 /\ \A j \in (k + 1)..Len(clicks) :
                       SupportCount(audio, clicks[j]) >= 2 =>
                          \A i \in Indices(audio) :
                             InRegion(i, clicks[j]) => corrected[i + 1].kind # "input"

\* a skipped region holding a non-zero input sample, followed in the list by
\* a region that was interpolated
FallbackSafetyWitness ==
    /\ pc = "done"
    /\ \E k \in 1..Len(clicks) :
          /\ SupportCount(audio, clicks[k]) < 2
          /\ \E i \in Indices(audio) :
                /\ InRegion(i, clicks[k])
                /\ audio[i + 1] # 0
                /\ corrected[i + 1] = InputSample(audio[i + 1])
          /\ \E j \in (k + 1)..Len(clicks) :
                /\ SupportCount(audio, clicks[j]) >= 2
                /\ \E i \in Indices(audio) : corrected[i + 1].kind # "input"

----------------------------------------------------------------------------
(* Properties of detect_clicks, checked under SpecClick *)

\* C2: no returned region intersects a maximal run of outliers that is longer
\* than max_click_length.
LongRunsRejected ==
    Detected =>
        \A run \in MaximalRuns(Outliers(audio, window_size, threshold)) :
            run[2] - run[1] > max_length =>
                \A k \in 1..Len(clicks) :
                    ~(clicks[k][1] < run[2] /\ run[1] < clicks[k][2])

\* C3: every returned region satisfies 0 <= start < end <= len(signal) and
\* end - start <= max_click_length.
RegionsWellFormed ==
    Detected =>
        \A k \in 1..Len(clicks) :
            /\ 0 <= clicks[k][1]
            /\ clicks[k][1] < clicks[k][2]
            /\ clicks[k][2] <= Len(audio)
            /\ clicks[k][2] - clicks[k][1] <= max_length

\* a returned region of exactly max_click_length >= 2 samples, and one that
\* ends at the end of the buffer
RegionsWellFormedWitness ==
    /\ Detected
    /\ max_length >= 2
    /\ \E k \in 1..Len(clicks) : clicks[k][2] - clicks[k][1] = max_length
    /\ \E k \in 1..Len(clicks) : clicks[k][2] = Len(audio)

\* C4: the returned list is in strictly ascending order with at least one
\* sample between consecutive regions: e1 < s2.
RegionsOrderedDisjoint ==
    Detected =>
        \A k \in 1..(Len(clicks) - 1) : clicks[k][2] < clicks[k + 1][1]

\* two returned regions separated by exactly one clean sample
RegionsOrderedDisjointWitness ==
    /\ Detected
    /\ \E k \in 1..(Len(clicks) - 1) : clicks[k][2] + 1 = clicks[k + 1][1]

\* the buffer is a constant baseline b with one spike of gain g over
\* [s, s + len), at least half a window away from both ends
IsSpike(b, g, s, len) ==
    /\ s >= HalfWindow
    /\ s + len + HalfWindow <= Len(audio)
    /\ audio = SpikeSignal(Len(audio), b, g * b, s, len)

\* C5: a spike of length 1 <= L <= max_click_length and amplitude >= 10x the
\* baseline, away from the buffer edges, is returned as exactly the one
\* region (s, s + L).
SpikeRecall ==
    Detected =>
        \A b \in Baselines, g \in Gains, s \in Indices(audio), len \in 1..max_length :
            IsSpike(b, g, s, len) => clicks = << <<s, s + len>> >>

\* C6: a constant signal yields no region for any threshold multiplier >= 3.0;
\* and whenever MAD(difference) = 0, no sample whose deviation equals
\* median(difference) is inside a region.
CleanSignalNoClicks ==
    Detected =>
        /\ (IsConstant(audio) /\ threshold >= 30) => clicks = <<>>
        /\ LET difference == Difference(audio, window_size)
               m2 == Median2(difference)
               a2 == Median2([i1 \in 1..Len(audio) |-> Abs(2 * difference[i1] - m2)])
           IN a2 = 0 =>
                 \A i \in Indices(audio) :
                    2 * difference[i + 1] = m2 =>
                       \A k \in 1..Len(clicks) : ~InRegion(i, clicks[k])

\* a non-zero constant signal shorter than half the window: the filtered
\* signal is all zero, so difference = |c| > 0 everywhere and MAD = 0
CleanSignalNoClicksWitness ==
    /\ Detected
    /\ IsConstant(audio)
    /\ audio[1] # 0
    /\ Len(audio) <= HalfWindow
    /\ threshold >= 30
    /\ clicks = <<>>

----------------------------------------------------------------------------
(* Properties of detect_silence, checked under SpecSilence (times in samples) *)

\* C8: a returned boundary satisfies 0 <= start_time <= end_time <= total_duration.
BoundaryOrdered ==
    pc = "returned" =>
        /\ 0 <= track_start
        /\ track_start <= track_end
        /\ track_end <= total_length

\* the signal has the same non-zero magnitude at every sample
UniformRms == audio[1] # 0 /\ \A i1 \in 1..Len(audio) : Abs(audio[i1]) = Abs(audio[1])

\* C9: a signal of uniform non-zero RMS, of any length >= 1, returns
\* start_time = 0 and end_time = total_duration.
NoTrimOnUniform ==
    (pc = "returned" /\ UniformRms) =>
        /\ track_start = 0
        /\ track_end = total_length
        /\ total_length = Len(audio)

\* a uniform signal longer than two coarse frames, for which all four
\* scans evaluated frames
NoTrimOnUniformWitness ==
    /\ pc = "returned"
    /\ UniformRms
    /\ Len(audio) > 2 * coarse_samples(sample_rate)
    /\ track_start = 0
    /\ track_end = Len(audio)

\* C10: K samples of silence followed by a tone: start_time is within one
\* fine frame (0.1 s) of K.
LeadInLocated ==
    pc = "returned" =>
        \A K \in 0..MaxSilence, T \in 1..MaxTone, amp \in ToneAmplitudes :
            audio = SilenceThenTone(K, T, amp) =>
                Abs(track_start - K) * 10 <= sample_rate

\* every sample is zero
IsSilent(a) == \A i1 \in 1..Len(a) : a[i1] = 0

\* C14: for an all-zero signal no frame, coarse or fine, at any position
\* satisfies the match criterion, and detect_silence returns start_time = 0
\* and end_time = total_duration = len(audio) / sample_rate.
ZeroRmsNoTrim ==
    (pc = "returned" /\ IsSilent(audio)) =>
        /\ \A i \in Indices(audio) :
              \A size \in {coarse_samples(sample_rate), fine_samples(sample_rate)} :
                 ~FrameMatches(SliceList(audio, i, i + size), audio)
        /\ track_start_coarse = 0
        /\ track_start = 0
        /\ track_end_coarse = total_length
        /\ track_end = total_length
        /\ total_length = Len(audio)

\* an all-zero signal of two coarse frames: all four scans evaluated frames
ZeroRmsNoTrimWitness ==
    /\ pc = "returned"
    /\ IsSilent(audio)
    /\ Len(audio) >= 2 * coarse_samples(sample_rate)
    /\ track_start = 0
    /\ track_end = Len(audio)

----------------------------------------------------------------------------
(* Properties of process_file and process_files, checked under SpecBatch *)

\* the three entries of the form parse
AllValid ==
    /\ form.window_size.valid
    /\ form.threshold_multiplier.valid
    /\ form.max_click_length.valid

\* process_file is past "Validate parameters" for the current file
InProcessing ==
    pc \in {"read", "detect", "correct", "interpolate", "done", "replace", "complete"}

\* the lines of the log that belong to file k
FileLog(k) == SelectSeq(log, LAMBDA l : l.file = k)

\* process_file has returned for file k
Returned(k) == k < fidx \/ (k = fidx /\ pc \in {"batch", "finished"})

WindowError == "Error: Window size must be between 3 and 25"
ErrorLines == {WindowError, "Error: Invalid parameter values",
               "Error: Unable to load file even with chunked reading",
               "Error processing file"}

HasLine(k, msg) == \E j \in 1..Len(log) : log[j].file = k /\ log[j].msg = msg

NoPartialWork ==
    (pc # "start" /\ (~AllValid \/ form.window_size.value < 3)) =>
        /\ ~InProcessing
        /\ audio = <<>>
        /\ clicks = <<>>
        /\ corrected = <<>>
        /\ \A k \in 1..Len(files) : disk[k] = FreshFile
        /\ \A k \in 1..fidx :
              /\ ~HasLine(k, "Loading audio file...")
              /\ ~HasLine(k, "Detected")
              /\ ~HasLine(k, "Saving cleaned audio...")
              /\ Returned(k) =>
                    /\ Len(FileLog(k)) = 2
                    /\ FileLog(k)[1].msg = "Processing"
                    /\ FileLog(k)[2].msg =
                          IF AllValid THEN WindowError
                          ELSE "Error: Invalid parameter values"

\* a batch of two files with window size 2: both calls returned the error
NoPartialWorkWitness ==
    /\ pc = "finished"
    /\ Len(files) = 2
    /\ AllValid
    /\ form.window_size.value = 2
    /\ HasLine(1, WindowError)
    /\ HasLine(2, WindowError)

\* C13: whatever fails in a file, process_file ends with a logged outcome and
\* returns to the loop: the "Processing" lines of the log are those of the
\* files 1, 2, ..., fidx in this order, once each; every call that returned
\* ended with an error line or with "Completed"; and the batch finishes only
\* after the last file, with "Processing complete".
FailureIsolation ==
    /\ LET called == SelectSeq(log, LAMBDA l : l.msg = "Processing")
       IN /\ Len(called) = fidx
          /\ \A j \in 1..fidx : called[j].file = j
    /\ \A k \in 1..fidx :
          Returned(k) =>
             LET lines == FileLog(k)
             IN lines[Len(lines)].msg \in ErrorLines \cup {"Completed"}
    /\ pc = "finished" =>
          /\ fidx = Len(files)
          /\ files # <<>> => log[Len(log)].msg = "Processing complete"

\* the first file failed after it was loaded, the second one was completed
FailureIsolationWitness ==
    /\ pc = "finished"
    /\ Len(files) = 2
    /\ HasLine(1, "Loading audio file...")
    /\ HasLine(1, "Error processing file")
    /\ HasLine(2, "Completed")

----------------------------------------------------------------------------
(* More properties of detect_clicks, checked under SpecClick and SpecDetect *)

\* C15: every maximal run of outliers [a, b) with b - a <= max_click_length
\* is returned as exactly one region (a, b), no other region touches it,
\* whatever precedes the run, and also when the run ends at len(signal).
ShortRunsReturned ==
    pc = "correct" =>
        \A run \in MaximalRuns(Outliers(audio, window_size, threshold)) :
            run[2] - run[1] <= max_length =>
                /\ Cardinality({k \in 1..Len(clicks) : clicks[k] = run}) = 1
                /\ \A k \in 1..Len(clicks) :
                      clicks[k] # run =>
                         ~(clicks[k][1] < run[2] /\ run[1] < clicks[k][2])

\* an over-long run, then a short run that is still open at the last sample
\* and is returned as (a, len(signal))
ShortRunsReturnedWitness ==
    /\ pc = "correct"
    /\ \E long \in MaximalRuns(Outliers(audio, window_size, threshold)) :
          /\ long[2] - long[1] > max_length
          /\ \E k \in 1..Len(clicks) :
                /\ clicks[k][2] = Len(audio)
                /\ long[2] < clicks[k][1]
                /\ clicks[k] \in MaximalRuns(Outliers(audio, window_size, threshold))

\* C16: a sample is an outlier iff its deviation from the baseline is strictly
\* greater than median(difference) + threshold * MAD(difference) * 1.4826,
\* and every index inside every returned region is such a sample.
OutlierIffAboveThreshold ==
    pc = "correct" =>
        LET difference == Difference(audio, window_size)
            m2 == Median2(difference)
            a2 == Median2([i1 \in 1..Len(audio) |-> Abs(2 * difference[i1] - m2)])
            above(i) == 400000 * difference[i + 1] >
                            200000 * m2 + threshold * a2 * 14826
            outliers == Outliers(audio, window_size, threshold)
        IN /\ \A i \in Indices(audio) : outliers[i + 1] <=> above(i)
           /\ \A k \in 1..Len(clicks) :
                 \A i \in Indices(audio) : InRegion(i, clicks[k]) => above(i)

\* MAD > 0, a region was returned, and a sample that deviates from the
\* baseline by no more than the threshold value lies right next to it
OutlierIffAboveThresholdWitness ==
    /\ pc = "correct"
    /\ LET difference == Difference(audio, window_size)
           m2 == Median2(difference)
           a2 == Median2([i1 \in 1..Len(audio) |-> Abs(2 * difference[i1] - m2)])
       IN /\ a2 > 0
          /\ \E k \in 1..Len(clicks) :
                /\ clicks[k][2] < Len(audio)
                /\ difference[clicks[k][2] + 1] > 0
                /\ 400000 * difference[clicks[k][2] + 1] <=
                       200000 * m2 + threshold * a2 * 14826

\* C17: at every position the baseline is the median of the real samples in
\* the window clipped to the buffer (doubled here, since the clipped window may
\* have an even number of samples): nothing from outside the buffer takes part.
BaselineShrinksAtEdges ==
    pc = "correct" =>
        LET filtered == medfilt(audio, window_size)
        IN \A i \in Indices(audio) :
              2 * filtered[i + 1] =
                  Median2(SliceList(audio, Max(0, i - HalfWindow), i + HalfWindow + 1))

----------------------------------------------------------------------------
(* More properties of interpolate_clicks, checked under SpecCorrect *)

\* region k of the list has at least 2 support points
Interpolable(k) == SupportCount(audio, clicks[k]) >= 2

\* C18: at every point of the loop, each region already handled that has at
\* least 2 support points holds, wherever no later handled region covers it,
\* the cubic interpolant through its support points, or the linear interpolant
\* through the same points when the cubic one cannot be built (fewer than 4
\* points), never the input; and on return every region has been handled.
FallbackChain ==
    pc \in {"interpolate", "done"} =>
        /\ pc = "done" => ri = Len(clicks)
        /\ \A k \in 1..ri :
              Interpolable(k) =>
                 \A i \in Indices(audio) :
                    ( /\ InRegion(i, clicks[k])
                      /\ \A j \in (k + 1)..ri :
                            Interpolable(j) => ~InRegion(i, clicks[j]) )
                    => corrected[i + 1] =
                          InterpSample(IF SupportCount(audio, clicks[k]) >= 4
                                       THEN "cubic" ELSE "linear",
                                       x_points(audio, clicks[k]),
                                       y_points(audio, clicks[k]), i)

\* returned: the first region fell back to linear, the second was then
\* corrected by the cubic interpolant, and the first one is still corrected
FallbackChainWitness ==
    /\ pc = "done"
    /\ Len(clicks) = 2
    /\ SupportCount(audio, clicks[1]) \in {2, 3}
    /\ SupportCount(audio, clicks[2]) >= 4
    /\ \E i \in Indices(audio) :
          InRegion(i, clicks[1]) /\ corrected[i + 1].kind = "linear"
    /\ \E i \in Indices(audio) :
          InRegion(i, clicks[2]) /\ corrected[i + 1].kind = "cubic"

\* the regions of the list are pairwise disjoint
PairwiseDisjoint(regions) ==
    \A j, k \in 1..Len(regions) :
        j < k => (regions[j][2] <= regions[k][1] \/ regions[k][2] <= regions[j][1])

\* C19: for a list of pairwise disjoint regions, the returned buffer is the
\* one interpolate_clicks returns for every permutation of the list.
OrderIndependence ==
    (pc = "done" /\ PairwiseDisjoint(clicks)) =>
        \A p \in Permutations(1..Len(clicks)) :
            interpolate_clicks(audio, [k \in 1..Len(clicks) |-> clicks[p[k]]])
                = corrected

\* returned, for two disjoint regions listed in descending order, both
\* interpolated, the first one among the support points of the second
OrderIndependenceWitness ==
    /\ pc = "done"
    /\ Len(clicks) = 2
    /\ PairwiseDisjoint(clicks)
    /\ clicks[2][2] <= clicks[1][1]
    /\ \A i \in Indices(audio) :
          (InRegion(i, clicks[1]) \/ InRegion(i, clicks[2]))
              => corrected[i + 1].kind # "input"
    /\ \E j \in 1..Len(x_points(audio, clicks[2])) :
          InRegion(x_points(audio, clicks[2])[j], clicks[1])

\* the elements of a sequence
Range(s) == {s[j] : j \in 1..Len(s)}

\* C20: the support indices of a region [start, end) of a buffer of length n
\* are exactly [max(0, start-5), start) united with [end, min(n, end+5)), in
\* ascending order; they number min(start, 5) + min(n - end, 5), lie in [0, n)
\* and outside [start, end); the support values are the input samples at
\* these indices; and the region just interpolated was fitted through them.
SupportPointSet ==
    pc \in {"interpolate", "done"} =>
        \A k \in 1..Len(clicks) :
            LET start == clicks[k][1]
                end == clicks[k][2]
                n == Len(audio)
                xs == x_points(audio, clicks[k])
                ys == y_points(audio, clicks[k])
            IN /\ Range(xs) = {i \in Indices(audio) :
                                  \/ Max(0, start - 5) <= i /\ i < start
                                  \/ end <= i /\ i < Min(n, end + 5)}
               /\ \A j \in 1..(Len(xs) - 1) : xs[j] < xs[j + 1]
               /\ Len(xs) = Min(start, 5) + Min(n - end, 5)
               /\ \A j \in 1..Len(xs) :
                     /\ 0 <= xs[j] /\ xs[j] < n
                     /\ ~InRegion(xs[j], clicks[k])
               /\ Len(ys) = Len(xs)
               /\ \A j \in 1..Len(xs) : ys[j] = audio[xs[j] + 1]
               /\ (k = ri /\ Len(xs) >= 2) =>
                     \A i \in Indices(audio) :
                        InRegion(i, clicks[k]) =>
                           /\ corrected[i + 1].xs = xs
                           /\ corrected[i + 1].ys = ys

\* a region with more than 5 samples on each side was interpolated through
\* 10 support points
SupportPointSetWitness ==
    /\ pc = "done"
    /\ Len(clicks) = 1
    /\ clicks[1][1] > 5
    /\ Len(audio) - clicks[1][2] > 5
    /\ \A i \in Indices(audio) :
          InRegion(i, clicks[1]) => Len(corrected[i + 1].xs) = 10


-----------------------------------------------------------------------------
(* Fallbacks of detect_silence, checked under SpecSilence *)

\* no 0.5 s frame of the forward scan matched
NoCoarseStartMatch ==
    ScanForward(audio, 0, Len(audio),
                coarse_samples(sample_rate), coarse_samples(sample_rate)) = -1

\* no 0.5 s frame of the backward scan matched
NoCoarseEndMatch ==
    ScanBackward(audio, Len(audio) - coarse_samples(sample_rate), 0,
                 coarse_samples(sample_rate), coarse_samples(sample_rate)) = -1

\* C21: when no coarse frame of the forward scan matches, start_time is 0, and
\* when no coarse frame of the backward scan matches, end_time is the total
\* duration: the fine phase does not move a boundary the coarse phase did not
\* find.
CoarseFallback ==
    pc = "returned" =>
        /\ NoCoarseStartMatch => track_start = 0
        /\ NoCoarseEndMatch => track_end = total_length


\* rev(x): the signal played backwards
Reverse(a) == [i1 \in 1..Len(a) |-> a[Len(a) + 1 - i1]]

\* the (start, end, total) that the four phases return for a signal
SilenceBoundary(a, sr) ==
    LET start_coarse == CoarseStart(a, sr)
        end_coarse == CoarseEnd(a, sr, Len(a))
    IN [start |-> FineStart(a, sr, start_coarse),
        end |-> FineEnd(a, sr, end_coarse),
        total |-> Len(a)]

\* C22: the boundary search is symmetric under time reversal: for rev(x)
\* detect_silence returns start_time = total_duration - end_time(x) and
\* end_time = total_duration - start_time(x).
ReversalSymmetry ==
    pc = "returned" =>
        LET r == SilenceBoundary(Reverse(audio), sample_rate)
        IN /\ r.start = total_length - track_end
           /\ r.end = total_length - track_start


-----------------------------------------------------------------------------
(* Support of a region among the other detected regions, checked under SpecDetect *)

\* C23: when interpolate_clicks corrects the regions detect_clicks returned for
\* the same buffer, no support index of a corrected region lies inside any
\* region of the list, also when two regions are fewer than 5 samples apart.
CleanSupport ==
    pc \in {"interpolate", "done"} =>
        \A k \in 1..ri : \A j \in 1..Len(clicks) :
            Interpolable(k) =>
                \A p \in Range(x_points(audio, clicks[k])) : ~InRegion(p, clicks[j])


-----------------------------------------------------------------------------
(* The window and its worker thread: start_processing and process_files of *)
(* the click remover, the trimmer and the converter                        *)

\* most threads started from one window
MaxThreads == 2
\* most files a run finds
MaxFound == 2

Tools == {"click_remover", "trimmer", "converter"}

\* What a run is started against: the entries of the form (the input folder
\* empty, naming a missing folder or an existing one; the output folder
\* empty, blank or a path), and what the worker meets (whether the output
\* folder can be created, whether the encoder answers, how many files match).
\* The converter has no overwrite option and the click remover no encoder.
Requests ==
    {r \in [tool : Tools,
            input_folder : {"", "missing", "present"},
            output_folder : {"", " ", "out"},
            overwrite_originals : BOOLEAN,
            numbers_valid : BOOLEAN,
            mkdir_ok : BOOLEAN,
            encoder_found : BOOLEAN,
            formats_selected : BOOLEAN,
            nfiles : 0..MaxFound] :
        /\ r.tool = "converter" => ~r.overwrite_originals
        /\ r.tool # "converter" => r.mkdir_ok /\ r.formats_selected
        /\ r.tool = "click_remover" => r.encoder_found}

\* threading.Thread(target=self.process_files): a worker at the top of
\* process_files, no file handled yet
NewThread == [pc |-> "input", i |-> 0]

Live(w) == threads[w].pc # "terminated"
LiveThreads == {w \in 1..Len(threads) : Live(w)}

\* the validation of start_processing: the warning it shows, or "none"
StartRejection(r) ==
    IF r.input_folder = "" THEN "Please select an input folder."
    ELSE IF r.tool = "converter" /\ r.output_folder = ""
        THEN "Please select an output folder."
    ELSE IF r.tool # "converter" /\ ~r.overwrite_originals /\ r.output_folder = ""
        THEN "Please select an output folder or enable 'Overwrite original files'."
    ELSE IF ~r.numbers_valid THEN "must be a valid number"
    ELSE "none"

StartRejections == {StartRejection(r) : r \in Requests} \ {"none"}

\* (mutant of SetProcessing: the flag is not raised)
SetProcessingForgotten == FALSE

\* self.processing = True
SetProcessing == TRUE

InitGui ==
    /\ GuiIdle
    /\ audio = <<>>
    /\ sample_rate = 0
    /\ pc = "mainloop"
    /\ ClickIdle
    /\ TrimIdle
    /\ FileIdle
    /\ EncoderIdle

\* the requests that pass the validation of start_processing
AcceptedRequests == {r \in Requests : StartRejection(r) = "none"}

\* The button's command.  Tk invokes it only while the button is not
\* disabled, and on the main thread, so that it runs to its end before the
\* next event is handled.  The form and the environment at this moment are
\* a request: one that fails the validation shows its warning and returns,
\* one that passes it starts a worker.
StartProcessing ==
    /\ process_button = "normal"
    /\ IF processing THEN UNCHANGED guiVars
       ELSE \/ \E m \in StartRejections :
                /\ messagebox' = m
                /\ UNCHANGED <<processing, process_button, threads, request>>
            \/ \E r \in AcceptedRequests :
                /\ Len(threads) < MaxThreads
                /\ processing' = SetProcessing
                /\ process_button' = "disabled"
                /\ threads' = Append(threads, NewThread)
                /\ request' = r
                /\ UNCHANGED messagebox
    /\ UNCHANGED nonGuiVars

\* the worker w moves on to the position "to" of process_files
Goto(w, to) == [threads EXCEPT ![w].pc = to]

\* (mutant of Return: the return leaves process_files at once, as it would
\* from outside the try block)
ReturnSkipsFinally(w) == [threads EXCEPT ![w] = [pc |-> "terminated", i |-> 0]]

\* "return" inside the try block after a dialog: control passes to
\* "finally", and the loop counter is no longer in use
Return(w) == [threads EXCEPT ![w] = [pc |-> "finally", i |-> 0]]

\* if not input_dir.exists(): showerror; return
WorkerCheckInput(w) ==
    /\ threads[w].pc = "input"
    /\ IF request.input_folder # "present"
       THEN /\ threads' = Return(w)
            /\ messagebox' = "Input folder does not exist!"
       ELSE /\ threads' = Goto(w, "output")
            /\ UNCHANGED messagebox
    /\ UNCHANGED <<processing, process_button, request>>
    /\ UNCHANGED nonGuiVars

\* the output folder: taken from the form unless the originals are
\* overwritten; an empty path after strip() is an error; the converter also
\* reports a folder it cannot create
WorkerCheckOutput(w) ==
    /\ threads[w].pc = "output"
    /\ IF ~request.overwrite_originals /\ request.output_folder \in {"", " "}
       THEN /\ threads' = Return(w)
            /\ messagebox' = "Output folder path is empty!"
       ELSE IF ~request.mkdir_ok
       THEN /\ threads' = Return(w)
            /\ messagebox' = "Could not create output directory"
       ELSE /\ threads' = Goto(w, IF request.tool = "click_remover"
                                  THEN "find" ELSE "encoder")
            /\ UNCHANGED messagebox
    /\ UNCHANGED <<processing, process_button, request>>
    /\ UNCHANGED nonGuiVars

\* subprocess.run([ffmpeg, '-version'], check=True) in its own try block
WorkerCheckEncoder(w) ==
    /\ threads[w].pc = "encoder"
    /\ IF ~request.encoder_found
       THEN /\ threads' = Return(w)
            /\ messagebox' = "FFmpeg not found!"
       ELSE /\ threads' = Goto(w, IF request.tool = "converter"
                                  THEN "formats" ELSE "find")
            /\ UNCHANGED messagebox
    /\ UNCHANGED <<processing, process_button, request>>
    /\ UNCHANGED nonGuiVars

\* the converter: selected_formats = self.get_selected_formats()
WorkerCheckFormats(w) ==
    /\ threads[w].pc = "formats"
    /\ IF ~request.formats_selected
       THEN /\ threads' = Return(w)
            /\ messagebox' = "Please select at least one input file type to process."
       ELSE /\ threads' = Goto(w, "find")
            /\ UNCHANGED messagebox
    /\ UNCHANGED <<processing, process_button, request>>
    /\ UNCHANGED nonGuiVars

\* files = list(input_dir.glob(...)); if not files: showinfo; return
WorkerFindFiles(w) ==
    /\ threads[w].pc = "find"
    /\ IF request.nfiles = 0
       THEN /\ threads' = Return(w)
            /\ messagebox' = "No files found in the input folder."
       ELSE /\ threads' = Goto(w, "loop")
            /\ UNCHANGED messagebox
    /\ UNCHANGED <<processing, process_button, request>>
    /\ UNCHANGED nonGuiVars

\* one iteration of the loop over the files: process_file returns
WorkerProcessFile(w) ==
    /\ threads[w].pc = "loop"
    /\ threads[w].i < request.nfiles
    /\ threads' = [threads EXCEPT ![w].i = @ + 1]
    /\ UNCHANGED <<processing, process_button, request, messagebox>>
    /\ UNCHANGED nonGuiVars

\* after the loop: showinfo("Success", ...), the end of the try block
WorkerComplete(w) ==
    /\ threads[w].pc = "loop"
    /\ threads[w].i = request.nfiles
    /\ threads' = Return(w)
    /\ messagebox' = "Processing complete!"
    /\ UNCHANGED <<processing, process_button, request>>
    /\ UNCHANGED nonGuiVars

\* a statement of the try block raises: control passes to "except Exception"
WorkerRaises(w) ==
    /\ threads[w].pc \in {"input", "output", "find", "loop"}
    /\ threads' = [threads EXCEPT ![w] = [pc |-> "except", i |-> 0]]
    /\ UNCHANGED <<processing, process_button, request, messagebox>>
    /\ UNCHANGED nonGuiVars

\* except Exception as e: self.log(...); messagebox.showerror(...)
WorkerExcept(w) ==
    /\ threads[w].pc = "except"
    /\ threads' = Goto(w, "finally")
    /\ messagebox' = "An error occurred"
    /\ UNCHANGED <<processing, process_button, request>>
    /\ UNCHANGED nonGuiVars

\* finally: self.processing = False
WorkerClearProcessing(w) ==
    /\ threads[w].pc = "finally"
    /\ processing' = FALSE
    /\ threads' = Goto(w, "enable")
    /\ UNCHANGED <<process_button, request, messagebox>>
    /\ UNCHANGED nonGuiVars

\* finally: self.process_button.config(state='normal', ...), the last
\* statement of process_files: the thread ends
WorkerEnableButton(w) ==
    /\ threads[w].pc = "enable"
    /\ process_button' = "normal"
    /\ threads' = Goto(w, "terminated")
    /\ UNCHANGED <<processing, request, messagebox>>
    /\ UNCHANGED nonGuiVars

\* a step of a worker thread
WorkerStep ==
    \E w \in 1..Len(threads) :
        \/ WorkerCheckInput(w) \/ WorkerCheckOutput(w) \/ WorkerCheckEncoder(w)
        \/ WorkerCheckFormats(w) \/ WorkerFindFiles(w) \/ WorkerProcessFile(w)
        \/ WorkerComplete(w) \/ WorkerRaises(w) \/ WorkerExcept(w)
        \/ WorkerClearProcessing(w) \/ WorkerEnableButton(w)

NextGui == StartProcessing \/ WorkerStep

SpecGui == InitGui /\ [][NextGui]_vars

\* the operating system schedules a thread that can run
SpecGuiFair == SpecGui /\ WF_vars(WorkerStep)


-----------------------------------------------------------------------------
(* Properties of the window and its worker, checked under SpecGui *)

\* C24: at most one process_files worker thread exists at any time:
\* start_processing starts a thread only when processing is False and sets
\* processing to True before starting it, so that while processing is True
\* no thread is started.
SingleWorker ==
    /\ [](Cardinality(LiveThreads) <= 1)
    /\ [][Len(threads') > Len(threads) =>
            /\ ~processing
            /\ processing'
            /\ LiveThreads = {}
            /\ Len(threads') = Len(threads) + 1]_vars

\* a second run was started after the first one ended, and is running
SingleWorkerWitness ==
    /\ Len(threads) = 2
    /\ ~Live(1)
    /\ Live(2)
    /\ processing
    /\ process_button = "disabled"


\* the dialogs of the ways out of process_files: the missing input folder,
\* the empty output path, the output directory that cannot be created, the
\* encoder not found, no format selected, no file found, an exception, and
\* the normal completion
ExitDialogs == {"Input folder does not exist!", "Output folder path is empty!",
                "Could not create output directory", "FFmpeg not found!",
                "Please select at least one input file type to process.",
                "No files found in the input folder.", "An error occurred",
                "Processing complete!"}

\* C25: every started worker eventually terminates with processing = False
\* and the button re-enabled, whichever way it leaves process_files, so that
\* whenever no worker runs a new batch can be started; and a start_processing
\* that rejects its inputs leaves processing False and starts no thread.
FlagReleased ==
    /\ (LiveThreads # {}) ~>
            (LiveThreads = {} /\ ~processing /\ process_button = "normal")
    /\ [](\A w \in 1..Len(threads) :
            threads[w].pc = "finally" => messagebox \in ExitDialogs)
    /\ [](LiveThreads = {} => ~processing /\ process_button = "normal")
    /\ [][(messagebox' \in StartRejections /\ messagebox' # messagebox) =>
            ~processing /\ ~processing' /\ threads' = threads]_vars

\* a second run, started after the first one ended, has itself ended through
\* the exception handler
FlagReleasedWitness ==
    /\ Len(threads) = 2
    /\ LiveThreads = {}
    /\ messagebox = "An error occurred"
    /\ ~processing
    /\ process_button = "normal"


-----------------------------------------------------------------------------
(* The original file in overwrite mode, checked under SpecBatch *)

\* C26: after process_file returns in overwrite mode the file's audio is still
\* on disk: the original content or the processed output is at file_path, or
\* the processed output is at the temp path; never are both the original and
\* the temp output gone.
NoDataLoss ==
    \A k \in 1..Len(disk) :
        (form.overwrite_originals /\ Returned(k)) =>
            \/ disk[k].original \in {"intact", "replaced"}
            \/ disk[k].temp = "written"


-----------------------------------------------------------------------------
(* The trimmer's process_file, checked under SpecTrim *)

NoBoundary == fine_samples(sample_rate) = 0

\* C28: process_file never runs the encoder and never touches the file when
\* detect_silence returned no boundary or when end_time - start_time <= 0;
\* whenever the encoder is run, its -ss and -t arguments are the detected
\* start_time and a strictly positive end_time - start_time.
TrimmerGuard ==
    /\ (pc \in {"replace", "complete", "exit"}
            /\ (NoBoundary \/ track_end - track_start <= 0)) =>
          /\ encoder = <<>>
          /\ disk[fidx] = FreshFile
    /\ \A j \in 1..Len(encoder) :
          /\ ~NoBoundary
          /\ encoder[j].ss = track_start
          /\ encoder[j].t = track_end - track_start
          /\ encoder[j].t > 0

\* a boundary with the start after the end was returned, and the file skipped
TrimmerGuardWitness ==
    /\ pc = "exit"
    /\ track_start > track_end
    /\ HasLine(fidx, "Skipped: Invalid duration")
    /\ encoder = <<>>


-----------------------------------------------------------------------------
(* The converter's output names, checked under SpecConvert *)

\* C29: convert_file writes to stem+ext when that name is free and otherwise
\* to stem_N+ext for the smallest N >= 1 that is free, so that the chosen
\* name is never one that existed when it was chosen; no file of the output
\* folder is ever overwritten; and two conversions of one batch that both
\* succeed leave two distinct files, each holding its own input.
NoClobber ==
    /\ [](\A j \in 1..Len(encoder) :
            LET run == encoder[j]
                stem == files[run.input]
            IN /\ run.output \notin run.before
               /\ stem \notin run.before => run.output = stem
               /\ stem \in run.before =>
                    \E N \in 1..(Cardinality(run.before) + 1) :
                        /\ run.output = NumberedPath(stem, N)
                        /\ \A M \in 1..(N - 1) : NumberedPath(stem, M) \in run.before)
    /\ [][\A n \in DOMAIN output_dir :
            n \in DOMAIN output_dir' /\ output_dir'[n] = output_dir[n]]_vars
    /\ [](\A i, j \in 1..Len(encoder) :
            (encoder[i].returncode = 0 /\ encoder[j].returncode = 0) =>
               /\ i # j => encoder[i].output # encoder[j].output
               /\ output_dir[encoder[i].output] =
                     [input |-> encoder[i].input, complete |-> TRUE])

\* two inputs named "a" were converted into a folder that held "a" and "a_2":
\* the first went to "a_1" and the second to "a_3"
NoClobberWitness ==
    /\ pc = "finished"
    /\ Len(encoder) = 2
    /\ files[1] = <<"a">> /\ files[2] = <<"a">>
    /\ encoder[1].returncode = 0 /\ encoder[2].returncode = 0
    /\ encoder[1].output = <<"a", 1>>
    /\ encoder[2].output = <<"a", 3>>
    /\ output_dir[<<"a">>] = "old"
    /\ output_dir[<<"a", 2>>] = "old"


-----------------------------------------------------------------------------
(* The two channels of a stereo file, checked under SpecStereo *)

\* what the click remover makes of one channel taken alone
ChannelAlone(column) ==
    interpolate_clicks(column, detect_clicks(column, window_size, threshold,
                                             max_length))

\* C30: each channel's regions are detected from and corrected on that
\* channel's samples only: the corrected left channel is what the left input
\* alone determines, whatever the right channel holds, and likewise the right
\* one; and a sample of a channel changes only if its index lies inside a
\* region detected on that channel.
ChannelIndependence ==
    pc = "done" =>
        \A ch \in {0, 1} :
            LET input == [i1 \in 1..Len(files[1]) |-> files[1][i1][ch + 1]] IN
            /\ clicks[ch + 1] = detect_clicks(input, window_size, threshold,
                                              max_length)
            /\ [i1 \in 1..Len(audio) |-> audio[i1][ch + 1]] = ChannelAlone(input)
            /\ \A i \in Indices(audio) :
                  (\A k \in 1..Len(clicks[ch + 1]) : ~InRegion(i, clicks[ch + 1][k]))
                      => audio[i + 1][ch + 1] = InputSample(input[i + 1])

\* a click was corrected on the left channel at an index where the right
\* channel, which has clicks of its own elsewhere, was left as it was
ChannelIndependenceWitness ==
    /\ pc = "done"
    /\ clicks[1] # <<>>
    /\ clicks[2] # <<>>
    /\ clicks[1] # clicks[2]
    /\ \E i \in Indices(audio) :
          /\ audio[i + 1][1].kind # "input"
          /\ audio[i + 1][2].kind = "input"

====
